---- MODULE Spec2Model ----
(***************************************************************************)
(* A model of src/game.py (the asteroids clone): the event loop of         *)
(* MyGame.run with one action per event type, the per-frame physics of     *)
(* missiles, rocks and spaceship, the rock spawner and the session state   *)
(* machine.                                                                *)
(*                                                                         *)
(* Positions are pixels.  A rock's random direction vector is held in      *)
(* quarters (a component d stands for d/4), so that direction * speed is   *)
(* an integer number of pixels.  The direction of the spaceship and of a   *)
(* missile is sin and cos of the angle, a multiple of 10 degrees.  The     *)
(* model keeps the positions of the spaceship and of the missiles as exact *)
(* numbers: a coordinate is a whole number x of pixels plus whole          *)
(* multiples fx[k] of sin(10k degrees), k in 1..8, and a move adds the     *)
(* speed to one of them.  The floats of the code are these numbers up to   *)
(* the rounding of float arithmetic (below 1e-11 pixel in the runs         *)
(* explored here).  The field exact tells that the floats are these        *)
(* numbers bit for bit: it holds while the object has only moved at 0, 90, *)
(* 180 and 270 degrees with the coordinate across the movement beyond 64   *)
(* in size (math.cos(math.radians(90)) is 6e-17, not 0, a term that the    *)
(* float addition absorbs there).  A distance of an exact object is        *)
(* compared exactly; of any other object it is compared with sines of nine *)
(* digits, and the comparison has no value when the distance is closer to  *)
(* the threshold than the error of that arithmetic, so that no behaviour   *)
(* of the model rests on a comparison the floats could decide otherwise.   *)
(*                                                                         *)
(* The pseudo random generator is a stream fixed by its seed: the model    *)
(* draws the seed once, in the initial state, and every random.randint /   *)
(* random.random call of the code consumes the next element of a stream.   *)
(* The keyboard is a state of the environment, changed by key events.      *)
(***************************************************************************)
EXTENDS Integers, Sequences, FiniteSets, TLC

VARIABLES
    state,              \* MyGame.state
    lives,              \* MyGame.lives
    score,              \* MyGame.score
    counter,            \* MyGame.counter
    min_rock_distance,  \* MyGame.min_rock_distance
    rocks,              \* MyGame.rocks: sequence of rocks
    spaceship,          \* MyGame.spaceship, with its active_missiles
    start_timer,        \* the pygame timer of the START event is armed
    restart_timer,      \* the pygame timer of the RESTART event is armed
    fire_age,           \* milliseconds from MyGame.fire_time to the last frame
    keys,               \* the keys held down (pygame.key.get_pressed)
    rng,                \* the random generator: its seed and stream positions
    ev,                 \* what the last handled event did (observation only)
    frames,             \* the REFRESH events handled while PLAYING so far
    key_changes         \* the changes of the keyboard while PLAYING so far

vars == <<state, lives, score, counter, min_rock_distance, rocks, spaceship,
          start_timer, restart_timer, fire_age, keys, rng, ev, frames,
          key_changes>>

-----------------------------------------------------------------------------
(* Program constants *)

Width == 800
Height == 600
FPS == 30
RefreshMs == 1000 \div FPS
FireDelayMs == 150
Margin == 200
InitialMinRockDistance == 350
InitialRocks == 4
InitialLives == 3
RockSpeed == 4
MissileSpeed == 15
MaxShipSpeed == 20
RotateStep == 10
RespawnCap == 10
RampCap == 15
RampSeconds == 20
RampFloor == 200
RampStep == 50
FragmentOffset == 10
\* the sprite of the spaceship (images/spaceship-off.png): width and height
ShipWidth == 40
ShipHeight == 60

HitDistance(size) ==
    CASE size = "big" -> 80 [] size = "normal" -> 55 [] OTHER -> 30

\* HitScore with the score of a big rock for every size
HitScore_Flat(size) == IF size \in {"big", "normal", "small"} THEN 20 ELSE 0

HitScore(size) ==
    CASE size = "big" -> 20 [] size = "normal" -> 50 [] OTHER -> 100

death_distances(size) ==
    CASE size = "big" -> 90 [] size = "normal" -> 65 [] OTHER -> 40

Sizes == {"big", "normal", "small"}
States == {"PLAYING", "DYING", "GAME_OVER", "STARTING", "WELCOME"}

-----------------------------------------------------------------------------
(* Bounds of the model *)

\* REFRESH events handled while PLAYING in one behaviour
MaxFrames == 60
\* while PLAYING the keyboard changes only on frames that are a multiple of
\* KeyPeriod, and at most MaxKeyChanges times in one behaviour
KeyPeriod == 9
MaxKeyChanges == 2
\* missiles in flight at once
MaxMissiles == 4
\* the key combinations the player uses
KeySets == {{}, {"RIGHT"}, {"LEFT"}, {"LEFT", "RIGHT"}, {"UP"}, {"SPACE"}}
\* frames already survived in the initial states of SpecLate
LateFrames == 540

-----------------------------------------------------------------------------
(* The random streams.  A seed fixes three cyclic streams: the positions   *)
(* random.randint gives inside the margin (make_rock, first sample), the   *)
(* positions it gives in the whole window (resampling) and the direction   *)
(* vectors of Rock.__init__, in quarters.                                  *)

Pt(x, y) == [x |-> x, y |-> y]

\* Seeds 1 and 2 put the four rocks of a new game on one spot to the right
\* of the spaceship and give them no movement; with seed 2 the thirteenth
\* and later rocks drift away.  Seed 3 spreads the rocks and moves them.
\* Seed 4 puts the rocks on the corners of the window and sends the one of
\* the first corner out of the window.
Seeds == {1, 2, 3, 4}

\* the seeds whose first rocks do not move: the seeds of the late games
StillSeeds == {1, 2}

\* the seeds of the sessions that begin on the welcome screen; seed 2 gives
\* what seed 1 gives until the thirteenth rock is made
SessionSeeds == Seeds \ {2}

Corners == << Pt(0, 0), Pt(Width, 0), Pt(0, Height), Pt(Width, Height) >>

BoxStream(seed) ==
    IF seed \in StillSeeds THEN << Pt(400, 300) >>
    ELSE IF seed = 3 THEN << Pt(600, 300), Pt(480, 400), Pt(200, 200) >>
    ELSE << Pt(400, 200) >>

FullStream(seed) ==
    IF seed \in StillSeeds
    THEN << Pt(750, 300), Pt(750, 300), Pt(750, 300), Pt(750, 300) >> \o Corners
    ELSE IF seed = 3
    THEN << Pt(750, 300), Pt(400, 460), Pt(40, 40), Pt(790, 590) >> \o Corners
    ELSE Corners

DirStream(seed) ==
    IF seed = 1 THEN << <<0, 0>> >>
    ELSE IF seed = 2 THEN [i \in 1..28 |-> IF i <= 12 THEN <<0, 0>> ELSE <<3, 3>>]
    ELSE IF seed = 3 THEN << <<0, 0>>, <<3, 2>>, <<-3, -3>>, <<3, -1>> >>
    ELSE << <<3, -3>>, <<0, 0>>, <<0, 0>>, <<0, 0>> >>

Advance(i, n) == (i % n) + 1

-----------------------------------------------------------------------------
(* General helper functions *)

Sq(n) == n * n

\* distance(p, q) squared; distance(p, q) < r iff Dist2(p, q) < Sq(r)
Dist2(p, q) == Sq(p.x - q.x) + Sq(p.y - q.y)

Abs(n) == IF n < 0 THEN 0 - n ELSE n

\* the angles at which sin and cos are whole numbers
AxisAngles == {0, 90, 180, 270}

\* a coordinate beyond this size absorbs direction * speed and adjust where
\* the float sin or cos of an angle of AxisAngles is not the 0 it stands for
FloatExactBeyond == 64

\* the float arithmetic of move and fire at the heading a gives whole pixels
\* for the object o at whole pixels
ExactAt(o, a) ==
    /\ a % 360 \in AxisAngles
    /\ a % 360 \in {90, 270} => Sq(o.y) > Sq(FloatExactBeyond)
    /\ a % 360 = 180 => Sq(o.x) > Sq(FloatExactBeyond)

\* sin(a degrees) = SinSign(a) * sin(10 * SinIndex(a) degrees), for an angle
\* a that is a multiple of 10; sin(0) = 0 is index 0, sin(90) = 1 index 9
SinIndex(a) ==
    LET b == a % 180 IN IF b <= 90 THEN b \div 10 ELSE (180 - b) \div 10
SinSign(a) == IF a % 360 < 180 THEN 1 ELSE -1

\* no multiple of a sine: a whole number of pixels
NoSines == << 0, 0, 0, 0, 0, 0, 0, 0 >>

\* the position of an object: x + sum of fx[k] * sin(10k) and the same in y
Pos(o) == [x |-> o.x, y |-> o.y, fx |-> o.fx, fy |-> o.fy, exact |-> o.exact]

\* the object o moved along the heading a: position[0] += sin(-radians(a))
\* * nx and position[1] += -cos(radians(a)) * ny, with cos(a) = sin(a + 90)
Along(o, a, nx, ny) ==
    LET kx == SinIndex(a)
        dx == (0 - SinSign(a)) * nx
        ky == SinIndex(a + 90)
        dy == (0 - SinSign(a + 90)) * ny
        o1 == IF kx = 0 THEN o
              ELSE IF kx = 9 THEN [o EXCEPT !.x = @ + dx]
              ELSE [o EXCEPT !.fx[kx] = @ + dx]
        o2 == IF ky = 0 THEN o1
              ELSE IF ky = 9 THEN [o1 EXCEPT !.y = @ + dy]
              ELSE [o1 EXCEPT !.fy[ky] = @ + dy]
    IN  [o2 EXCEPT !.exact = o.exact /\ ExactAt(o, a)]

\* sin(10k degrees), k in 1..8, in units of 1e-9 rounded to the nearest:
\* SinHi[k] * 100000 + SinLo[k]
SinHi == << 1736, 3420, 5000, 6427, 7660, 8660, 9396, 9848 >>
SinLo == << 48178, 20143, 0, 87610, 44443, 25404, 92621, 7753 >>

Weigh(f, t) ==
    f[1] * t[1] + f[2] * t[2] + f[3] * t[3] + f[4] * t[4]
    + f[5] * t[5] + f[6] * t[6] + f[7] * t[7] + f[8] * t[8]

\* w whole pixels and n units of 1e-9 as w whole pixels and u millionths of
\* a pixel, u in 0..1000000
Micro(w, n) ==
    [w |-> w + n \div 1000000000, u |-> ((n % 1000000000) + 500) \div 1000]

\* sum of f[k] * sin(10k): w whole pixels and u millionths of a pixel, to
\* within 2 millionths while the multiples add up to 3000
Part(f) ==
    Micro(Weigh(f, SinHi) \div 10000,
          (Weigh(f, SinHi) % 10000) * 100000 + Weigh(f, SinLo))

\* d whole pixels plus the part p: a pixels and m millionths, m in
\* -500000..500000
Nearest(d, p) ==
    IF p.u > 500000 THEN [a |-> d + p.w + 1, m |-> p.u - 1000000]
    ELSE [a |-> d + p.w, m |-> p.u]

\* the coordinate v + sum of f[k] * sin(10k) minus the whole number q
Gap(v, f, q) == Nearest(v - q, Part(f))

\* the square of m millionths, in millionths, to within 2
SqMicro(m) == Sq(m \div 1000) + (2 * (m \div 1000) * (m % 1000)) \div 1000

\* the sign of F millionths that are known to within the margin: negative
\* or not, and no value inside the margin
Negative(F, margin) ==
    CASE F < 0 - margin -> TRUE
      [] F > margin -> FALSE

\* the gaps gx = a + alpha and gy = b + beta with n = a^2 + b^2 - r^2 and
\* size = |a| + |b|: the sign of n + 2(a alpha + b beta) + alpha^2 + beta^2
\* is decided by the whole numbers when n is larger than the rest can be,
\* and else in millionths, where the error is below 4 size + 10
Within(gx, gy, n, size) ==
    IF n > size + 2 THEN FALSE
    ELSE IF n < 0 - (size + 2) THEN TRUE
    ELSE Negative(n * 1000000 + 2 * gx.a * gx.m + 2 * gy.a * gy.m
                    + SqMicro(gx.m) + SqMicro(gy.m),
                  4 * size + 10)

\* the gaps gx and gy are less than r apart
Closer(gx, gy, r) ==
    Within(gx, gy, Sq(gx.a) + Sq(gy.a) - Sq(r), Abs(gx.a) + Abs(gy.a))

\* distance(o.position, q) < r for an object o and a point q at whole
\* pixels: exactly for an exact object, with no value inside the error
\* margin of the arithmetic for any other
Less(o, q, r) ==
    IF o.exact THEN Dist2(o, q) < Sq(r)
    ELSE Closer(Gap(o.x, o.fx, q.x), Gap(o.y, o.fy, q.y), r)

RemoveAt(s, i) == SubSeq(s, 1, i - 1) \o SubSeq(s, i + 1, Len(s))

-----------------------------------------------------------------------------
(* The game object.  The handlers below are functions from the game object  *)
(* g at the start of an event to the game object at its end; g.log records  *)
(* what the handler did and g.hung that it never returns.                  *)

\* kind: the event; pre, old: the state, lives, score and number of rocks
\* before it; then what the handler did.  m0, r0: the missiles and the rocks
\* in their lists when the loop over the list starts; mmoved, rmoved: how
\* many of these the loop moved; rold: how many of the r0 rocks are still in
\* the list (they come before the rocks made during the loop); launched: the
\* missile that fire made, as it was made, and the ship that made it
NoLog(kind, pre, old) ==
    [kind |-> kind, pre |-> pre, old |-> old, fired |-> FALSE, deaths |-> 0,
     hits |-> <<>>, spawns |-> <<>>, ramp |-> FALSE,
     m0 |-> 0, mmoved |-> 0, r0 |-> 0, rold |-> 0, rmoved |-> 0,
     launched |-> <<>>]

Old(l, s, n) == [lives |-> l, score |-> s, n |-> n]

Game(kind) ==
    [state |-> state, lives |-> lives, score |-> score, counter |-> counter,
     mrd |-> min_rock_distance, rocks |-> rocks, ship |-> spaceship,
     tstart |-> start_timer, trestart |-> restart_timer, age |-> fire_age,
     rng |-> rng, hung |-> FALSE,
     log |-> NoLog(kind, state, Old(lives, score, Len(rocks)))]

\* Spaceship.__init__ at (width//2, height//2)
Spaceship ==
    [x |-> Width \div 2, y |-> Height \div 2, fx |-> NoSines, fy |-> NoSines,
     exact |-> TRUE, angle |-> 0, speed |-> 0,
     is_throttle_on |-> FALSE, active_missiles |-> <<>>]

\* Spaceship.move: position += direction * speed (direction * 0 is 0 in
\* floats as well)
ShipMove(s) ==
    IF s.speed = 0 THEN s ELSE Along(s, s.angle, s.speed, s.speed)

\* Missile.__init__ with the position Spaceship.fire computes:
\* (x + sin(-a) * width, y + (-cos(a) * height) / 2), for an even height
Missile(s) ==
    LET p == Along(Pos(s), s.angle, ShipWidth, ShipHeight \div 2)
    IN  [x |-> p.x, y |-> p.y, fx |-> p.fx, fy |-> p.fy, exact |-> p.exact,
         angle |-> s.angle]

\* Spaceship.fire
fire(s) == [s EXCEPT !.active_missiles = Append(@, Missile(s))]

\* Missile.move
MissileMove(m) == Along(m, m.angle, MissileSpeed, MissileSpeed)

\* Rock.__init__ for a valid size; d is the random direction, in quarters
Rock(p, size, d) ==
    [size |-> size, x |-> p.x, y |-> p.y, dirx |-> d[1], diry |-> d[2]]

\* Rock.move: position += direction * speed
RockMove(r) ==
    [r EXCEPT !.x = @ + (r.dirx * RockSpeed) \div 4,
              !.y = @ + (r.diry * RockSpeed) \div 4]

\* make_rock(size, pos) with a position: the rock is appended to rocks
make_rock_at(g, size, p, why) ==
    LET ds == DirStream(g.rng.seed)
        r  == Rock(p, size, ds[g.rng.d])
    IN  [g EXCEPT !.rocks = Append(@, r),
                  !.rng.d = Advance(@, Len(ds)),
                  !.log.spawns = Append(@, [why |-> why, n0 |-> Len(g.rocks),
                                            size |-> size, x |-> p.x, y |-> p.y,
                                            ship |-> Pos(g.ship)])]

\* the while loop of make_rock: samples of the whole window until one is not
\* too close to the spaceship; it never ends when the stream holds none
RECURSIVE Resample(_, _)
Resample(g, tries) ==
    LET fs == FullStream(g.rng.seed)
        p  == fs[g.rng.f]
        g1 == [g EXCEPT !.rng.f = Advance(@, Len(fs))]
    IN  IF tries = 0 THEN [g |-> [g EXCEPT !.hung = TRUE], p |-> Pt(0, 0)]
        ELSE IF Less(g.ship, p, g.mrd) THEN Resample(g1, tries - 1)
        ELSE [g |-> g1, p |-> p]

\* make_rock(size) without a position
make_rock(g, size, why) ==
    LET bs == BoxStream(g.rng.seed)
        p1 == bs[g.rng.b]
        g1 == [g EXCEPT !.rng.b = Advance(@, Len(bs))]
        s  == IF Less(g.ship, p1, g.mrd)
              THEN Resample(g1, Len(FullStream(g.rng.seed)))
              ELSE [g |-> g1, p |-> p1]
    IN  make_rock_at(s.g, size, s.p, why)

\* for i in range(n): self.make_rock()
RECURSIVE MakeRocks(_, _, _)
MakeRocks(g, n, why) ==
    IF n = 0 THEN g ELSE MakeRocks(make_rock(g, "big", why), n - 1, why)

\* MyGame.start
start(g) == [g EXCEPT !.ship = Spaceship, !.state = "PLAYING"]

\* do_init with a minimum distance that no position of the window can keep
\* from a ship at the centre
do_init_HugeRadius(g) ==
    LET g1 == [g EXCEPT !.rocks = <<>>, !.mrd = Width + Height]
        g2 == MakeRocks(start(g1), InitialRocks, "init")
    IN  [g2 EXCEPT !.lives = InitialLives, !.score = 0, !.counter = 0]

\* do_init without the reset of the score
do_init_KeepScore(g) ==
    LET g1 == [g EXCEPT !.rocks = <<>>, !.mrd = InitialMinRockDistance]
        g2 == MakeRocks(start(g1), InitialRocks, "init")
    IN  [g2 EXCEPT !.lives = InitialLives, !.counter = 0]

\* MyGame.do_init
do_init(g) ==
    LET g1 == [g EXCEPT !.rocks = <<>>, !.mrd = InitialMinRockDistance]
        g2 == MakeRocks(start(g1), InitialRocks, "init")
    IN  [g2 EXCEPT !.lives = InitialLives, !.score = 0, !.counter = 0]

\* game_over without the timer of the RESTART event
game_over_NoTimer(g) == [g EXCEPT !.state = "GAME_OVER"]

\* MyGame.game_over
game_over(g) == [g EXCEPT !.state = "GAME_OVER", !.trestart = TRUE]

\* die with a penalty on the score
die_Penalty(g) ==
    [g EXCEPT !.lives = @ - 1, !.counter = 0, !.state = "DYING", !.tstart = TRUE,
              !.log.deaths = @ + 1, !.score = @ - HitScore("big")]

\* MyGame.die
die(g) ==
    [g EXCEPT !.lives = @ - 1, !.counter = 0, !.state = "DYING",
              !.tstart = TRUE, !.log.deaths = @ + 1]

\* MyGame.physics
physics(g) ==
    IF g.state = "PLAYING" THEN [g EXCEPT !.ship = ShipMove(@)] ELSE g

-----------------------------------------------------------------------------
(* MyGame.missiles_physics.  Both loops are Python for loops over a list    *)
(* that the body changes: the loop keeps an index, visits the element at   *)
(* that index and ends when the index reaches the current length.  i and j *)
(* are those indexes plus one.                                             *)

\* Split with the replacement of a small rock not capped
Split_Uncapped(g, rock) ==
    IF rock.size = "big"
    THEN make_rock_at(make_rock_at(g, "normal", Pt(rock.x + FragmentOffset, rock.y), "split"),
                      "normal", Pt(rock.x - FragmentOffset, rock.y), "split")
    ELSE IF rock.size = "normal"
    THEN make_rock_at(make_rock_at(g, "small", Pt(rock.x + FragmentOffset, rock.y), "split"),
                      "small", Pt(rock.x - FragmentOffset, rock.y), "split")
    ELSE make_rock(g, "big", "small")

\* Split with both fragments on the same side
Split_SameSide(g, rock) ==
    IF rock.size = "big"
    THEN make_rock_at(make_rock_at(g, "normal", Pt(rock.x + FragmentOffset, rock.y), "split"),
                      "normal", Pt(rock.x + FragmentOffset, rock.y), "split")
    ELSE IF rock.size = "normal"
    THEN make_rock_at(make_rock_at(g, "small", Pt(rock.x + FragmentOffset, rock.y), "split"),
                      "small", Pt(rock.x + FragmentOffset, rock.y), "split")
    ELSE IF Len(g.rocks) < RespawnCap THEN make_rock(g, "big", "small") ELSE g

\* Split with the cap tested on the number of rocks before the removal
Split_CapBefore(g, rock) ==
    IF rock.size = "big"
    THEN make_rock_at(make_rock_at(g, "normal", Pt(rock.x + FragmentOffset, rock.y), "split"),
                      "normal", Pt(rock.x - FragmentOffset, rock.y), "split")
    ELSE IF rock.size = "normal"
    THEN make_rock_at(make_rock_at(g, "small", Pt(rock.x + FragmentOffset, rock.y), "split"),
                      "small", Pt(rock.x - FragmentOffset, rock.y), "split")
    ELSE IF Len(g.rocks) + 1 < RespawnCap THEN make_rock(g, "big", "small") ELSE g

\* the rocks a hit on `rock` makes, after the rock itself was removed
Split(g, rock) ==
    IF rock.size = "big"
    THEN make_rock_at(make_rock_at(g, "normal", Pt(rock.x + FragmentOffset, rock.y), "split"),
                      "normal", Pt(rock.x - FragmentOffset, rock.y), "split")
    ELSE IF rock.size = "normal"
    THEN make_rock_at(make_rock_at(g, "small", Pt(rock.x + FragmentOffset, rock.y), "split"),
                      "small", Pt(rock.x - FragmentOffset, rock.y), "split")
    ELSE IF Len(g.rocks) < RespawnCap THEN make_rock(g, "big", "small") ELSE g

\* the missile of iteration j, still in the list iff alive, hits rocks[i]
Hit(g, i, j, alive) ==
    LET rock == g.rocks[i]
        g1 == [g EXCEPT !.rocks = RemoveAt(@, i),
                        !.ship.active_missiles = IF alive THEN RemoveAt(@, j) ELSE @]
        g2 == Split(g1, rock)
    IN  [g2 EXCEPT !.score = @ + HitScore(rock.size),
                   !.log.hits = Append(@,
                       [size |-> rock.size, x |-> rock.x, y |-> rock.y,
                        n0 |-> Len(g.rocks), n1 |-> Len(g2.rocks),
                        made |-> SubSeq(g2.rocks, Len(g1.rocks) + 1, Len(g2.rocks)),
                        shot |-> j, first |-> alive, gain |-> HitScore(rock.size)])]

\* for rock in self.rocks, for the moved missile m of iteration j
RECURSIVE RockScan(_, _, _, _, _)
RockScan(g, m, j, alive, i) ==
    IF i > Len(g.rocks) THEN g
    ELSE IF Less(m, g.rocks[i], HitDistance(g.rocks[i].size))
    THEN RockScan(Hit(g, i, j, alive), m, j, FALSE, i + 1)
    ELSE RockScan(g, m, j, alive, i + 1)

\* for missile in self.spaceship.active_missiles
RECURSIVE MissileLoop(_, _)
MissileLoop(g, j) ==
    IF j > Len(g.ship.active_missiles) THEN g
    ELSE LET m  == MissileMove(g.ship.active_missiles[j])
             g1 == [g EXCEPT !.ship.active_missiles[j] = m,
                             !.log.mmoved = @ + 1]
         IN  MissileLoop(RockScan(g1, m, j, TRUE, 1), j + 1)

missiles_physics(g) ==
    IF Len(g.ship.active_missiles) > 0
    THEN MissileLoop([g EXCEPT !.log.m0 = Len(g.ship.active_missiles)], 1)
    ELSE g

-----------------------------------------------------------------------------
(* MyGame.rocks_physics *)

\* the rock is farther from the centre than the half diagonal of the window
OutOfScreen(r) ==
    Dist2(r, Pt(Width \div 2, Height \div 2)) > Sq(Width \div 2) + Sq(Height \div 2)

\* the rock that left the screen is removed and, under the cap, replaced
Respawn(g, i) ==
    LET g1 == [g EXCEPT !.rocks = RemoveAt(@, i)]
    IN  IF Len(g1.rocks) < RespawnCap THEN make_rock(g1, g.rocks[i].size, "oob") ELSE g1

\* for rock in self.rocks
RECURSIVE RockLoop(_, _)
RockLoop(g, i) ==
    IF i > Len(g.rocks) THEN g
    ELSE LET r  == RockMove(g.rocks[i])
             was == i <= g.log.rold
             g1 == [g EXCEPT !.rocks[i] = r,
                             !.log.rmoved = IF was THEN @ + 1 ELSE @]
             g2 == [g1 EXCEPT !.log.rold = IF was THEN @ - 1 ELSE @]
         IN  IF Less(g1.ship, r, death_distances(r.size))
             THEN RockLoop(die(g1), i + 1)
             ELSE IF OutOfScreen(r) THEN RockLoop(Respawn(g2, i), i + 1)
             ELSE RockLoop(g1, i + 1)

rocks_physics(g) ==
    IF Len(g.rocks) > 0
    THEN RockLoop([g EXCEPT !.log.r0 = Len(g.rocks), !.log.rold = Len(g.rocks)], 1)
    ELSE g

-----------------------------------------------------------------------------
(* MyGame.draw: the survival counter and the difficulty ramp *)

\* Ramp without the reset of the survival counter
Ramp_NoReset(g) ==
    LET g1 == IF Len(g.rocks) < RampCap THEN make_rock(g, "big", "ramp") ELSE g
        g2 == IF g1.mrd < RampFloor THEN [g1 EXCEPT !.mrd = @ - RampStep] ELSE g1
    IN  [g2 EXCEPT !.log.ramp = TRUE]

Ramp(g) ==
    LET g1 == IF Len(g.rocks) < RampCap THEN make_rock(g, "big", "ramp") ELSE g
        g2 == IF g1.mrd < RampFloor THEN [g1 EXCEPT !.mrd = @ - RampStep] ELSE g1
    IN  [g2 EXCEPT !.counter = 0, !.log.ramp = TRUE]

draw(g) ==
    IF g.state = "PLAYING"
    THEN LET g1 == [g EXCEPT !.counter = @ + 1]
         IN  IF g1.counter = RampSeconds * FPS THEN Ramp(g1) ELSE g1
    ELSE g

-----------------------------------------------------------------------------
(* MyGame.run: the REFRESH event *)

\* the fire key: one missile when more than 0.15 s passed since the last one
FireKey(g, ks) ==
    IF "SPACE" \in ks /\ g.age > FireDelayMs
    THEN LET s == fire(g.ship)
             m == s.active_missiles[Len(s.active_missiles)]
         IN  [g EXCEPT !.ship = s, !.age = 0, !.log.fired = TRUE,
                       !.log.launched = << [m |-> m, ship |-> Pos(g.ship),
                                            heading |-> g.ship.angle] >>]
    ELSE g

\* Rotate without the reduction modulo 360
Rotate_NoWrap(s, ks) ==
    LET a1 == IF "RIGHT" \in ks THEN s.angle - RotateStep ELSE s.angle
        a2 == IF "LEFT" \in ks THEN a1 + RotateStep ELSE a1
    IN  [s EXCEPT !.angle = a2]

\* the rotation keys
Rotate(s, ks) ==
    LET a1 == IF "RIGHT" \in ks THEN (s.angle - RotateStep) % 360 ELSE s.angle
        a2 == IF "LEFT" \in ks THEN (a1 + RotateStep) % 360 ELSE a1
    IN  [s EXCEPT !.angle = a2]

\* Throttle without the cap on the speed
Throttle_NoCap(s, ks) ==
    IF "UP" \in ks
    THEN [s EXCEPT !.is_throttle_on = TRUE, !.speed = @ + 1]
    ELSE [s EXCEPT !.is_throttle_on = FALSE,
                   !.speed = IF @ > 0 THEN @ - 1 ELSE @]

\* the throttle key
Throttle(s, ks) ==
    IF "UP" \in ks
    THEN [s EXCEPT !.is_throttle_on = TRUE,
                   !.speed = IF @ < MaxShipSpeed THEN @ + 1 ELSE @]
    ELSE [s EXCEPT !.is_throttle_on = FALSE,
                   !.speed = IF @ > 0 THEN @ - 1 ELSE @]

Playing(g, ks) ==
    LET g1 == [g EXCEPT !.ship = Throttle(Rotate(@, ks), ks)]
    IN  physics(rocks_physics(missiles_physics(g1)))

\* the time from fire_time to this frame; all that is read is whether it
\* is more than FireDelayMs, so it is not counted beyond that
Elapse(g) ==
    [g EXCEPT !.age = IF @ + RefreshMs > FireDelayMs THEN FireDelayMs + 1
                      ELSE @ + RefreshMs]

OnRefresh(g, ks) ==
    LET g0 == Elapse(g)
    IN  IF g0.state # "WELCOME"
        THEN LET g1 == FireKey(g0, ks)
                 g2 == IF g1.state = "PLAYING" THEN Playing(g1, ks) ELSE g1
             IN  draw(g2)
        ELSE draw(g0)

\* OnStart without clearing the rocks
OnStart_KeepRocks(g) ==
    LET g1 == [g EXCEPT !.tstart = FALSE]
    IN  IF g1.lives < 1 THEN game_over(g1)
        ELSE start(MakeRocks(g1, InitialRocks, "start"))

\* OnStart without turning the timer off
OnStart_StillArmed(g) ==
    IF g.lives < 1 THEN game_over(g)
    ELSE start(MakeRocks([g EXCEPT !.rocks = <<>>], InitialRocks, "start"))

\* the START event: resume after losing a life
OnStart(g) ==
    LET g1 == [g EXCEPT !.tstart = FALSE]
    IN  IF g1.lives < 1 THEN game_over(g1)
        ELSE start(MakeRocks([g1 EXCEPT !.rocks = <<>>], InitialRocks, "start"))

\* the RESTART event: from the game over screen to a new game
OnRestart(g) == [g EXCEPT !.trestart = FALSE, !.state = "STARTING"]

\* AcceptsNewGame with the dying screen taken for a screen that waits
AcceptsNewGame_Dying(s) == s = "STARTING" \/ s = "WELCOME" \/ s = "DYING"

\* a click or Enter starts a new game in these states only
AcceptsNewGame(s) == s = "STARTING" \/ s = "WELCOME"

-----------------------------------------------------------------------------
(* The actions: one per event type of MyGame.run *)

Commit(g) ==
    /\ ~g.hung
    /\ state' = g.state
    /\ lives' = g.lives
    /\ score' = g.score
    /\ counter' = g.counter
    /\ min_rock_distance' = g.mrd
    /\ rocks' = g.rocks
    /\ spaceship' = g.ship
    /\ start_timer' = g.tstart
    /\ restart_timer' = g.trestart
    /\ fire_age' = g.age
    /\ rng' = g.rng
    /\ ev' = g.log

\* MyGame.__init__: the welcome screen; the session attributes do not exist
\* yet and are given null values here
Init ==
    /\ state = "WELCOME"
    /\ lives = 0
    /\ score = 0
    /\ counter = 0
    /\ min_rock_distance = 0
    /\ rocks = <<>>
    /\ spaceship = Spaceship
    /\ start_timer = FALSE
    /\ restart_timer = FALSE
    /\ fire_age = 0
    /\ keys = {}
    /\ rng \in [seed : SessionSeeds, b : {1}, f : {1}, d : {1}]
    /\ ev = NoLog("construct", "WELCOME", Old(0, 0, 0))
    /\ frames = 0
    /\ key_changes = 0

Refresh ==
    /\ state = "PLAYING" => frames < MaxFrames
    /\ LET g == OnRefresh(Game("refresh"), keys)
       IN  /\ Len(g.ship.active_missiles) <= MaxMissiles
           /\ Commit(g)
    /\ frames' = IF state = "PLAYING" THEN frames + 1 ELSE frames
    /\ UNCHANGED <<keys, key_changes>>

StartTimer ==
    /\ start_timer
    /\ Commit(OnStart(Game("start")))
    /\ UNCHANGED <<keys, frames, key_changes>>

RestartTimer ==
    /\ restart_timer
    /\ Commit(OnRestart(Game("restart")))
    /\ UNCHANGED <<keys, frames, key_changes>>

Click ==
    /\ IF AcceptsNewGame(state) THEN Commit(do_init(Game("click")))
       ELSE UNCHANGED <<state, lives, score, counter, min_rock_distance, rocks,
                        spaceship, start_timer, restart_timer, fire_age, rng, ev>>
    /\ UNCHANGED <<keys, frames, key_changes>>

Enter ==
    /\ IF AcceptsNewGame(state) THEN Commit(do_init(Game("enter")))
       ELSE UNCHANGED <<state, lives, score, counter, min_rock_distance, rocks,
                        spaceship, start_timer, restart_timer, fire_age, rng, ev>>
    /\ UNCHANGED <<keys, frames, key_changes>>

\* any other key event: run ignores it, the keyboard state changes
KeyChange ==
    /\ state = "PLAYING" =>
          (frames % KeyPeriod = 0 /\ key_changes < MaxKeyChanges)
    /\ \E k \in KeySets \ {keys} : keys' = k
    /\ key_changes' = IF state = "PLAYING" THEN key_changes + 1 ELSE key_changes
    /\ UNCHANGED <<state, lives, score, counter, min_rock_distance, rocks,
                   spaceship, start_timer, restart_timer, fire_age, rng, ev, frames>>

Next == Refresh \/ StartTimer \/ RestartTimer \/ Click \/ Enter \/ KeyChange

Spec == Init /\ [][Next]_vars

\* A game LateFrames frames after a click on the welcome screen during which
\* no key was held, for the seeds whose rocks stand still: nothing but the
\* survival counter changed since do_init.
LateGame(seed) ==
    LET g0 == [state |-> "WELCOME", lives |-> 0, score |-> 0, counter |-> 0,
               mrd |-> 0, rocks |-> <<>>, ship |-> Spaceship,
               tstart |-> FALSE, trestart |-> FALSE, age |-> FireDelayMs + 1,
               rng |-> [seed |-> seed, b |-> 1, f |-> 1, d |-> 1],
               hung |-> FALSE, log |-> NoLog("refresh", "PLAYING", Old(0, 0, 0))]
        g1 == do_init(g0)
    IN  [g1 EXCEPT !.counter = LateFrames,
                   !.log = NoLog("refresh", "PLAYING",
                                 Old(g1.lives, g1.score, Len(g1.rocks)))]

InitLate ==
    /\ \E seed \in StillSeeds :
          LET g == LateGame(seed)
          IN  /\ state = g.state
              /\ lives = g.lives
              /\ score = g.score
              /\ counter = g.counter
              /\ min_rock_distance = g.mrd
              /\ rocks = g.rocks
              /\ spaceship = g.ship
              /\ start_timer = g.tstart
              /\ restart_timer = g.trestart
              /\ fire_age = g.age
              /\ rng = g.rng
              /\ ev = g.log
    /\ keys \in KeySets
    /\ frames = 0
    /\ key_changes = 0

SpecLate == InitLate /\ [][Next]_vars

\* The steps that turn an armed timer off are the steps of its handler:
\* StartTimerFires is StartTimer seen from outside, RestartTimerFires is
\* RestartTimer.
StartTimerFires == start_timer /\ start_timer' = FALSE
RestartTimerFires == restart_timer /\ restart_timer' = FALSE

\* pygame posts the event of an armed timer after its delay: a timer that
\* stays armed fires
SpecFair ==
    Spec /\ WF_start_timer(StartTimerFires) /\ WF_restart_timer(RestartTimerFires)

-----------------------------------------------------------------------------
(* The constructor of Rock on any size argument, through make_rock with a  *)
(* given position, in a game that has just been initialised.               *)

\* rocks made by this specification in one behaviour
MaxMade == 3
\* the size arguments and the positions that are passed
SizeArgs == Sizes \cup {"huge", ""}
PosArgs == {Pt(0, 0), Pt(Width \div 2, Height \div 2), Pt(790, 10)}

\* Rock.__init__: with a size that is not one of the three the constructor
\* returns before it sets any attribute and raises nothing: the caller gets
\* an object without size, position and direction
RockInit(p, size, d) == IF size \in Sizes THEN Rock(p, size, d) ELSE << >>

\* MyGame.make_rock with a position: the new object joins the rock list
make_rock_pos(g, size, p) ==
    LET ds == DirStream(g.rng.seed)
        r  == RockInit(p, size, ds[g.rng.d])
    IN  [g EXCEPT !.rocks = Append(@, r),
                  !.rng.d = IF size \in Sizes THEN Advance(@, Len(ds)) ELSE @,
                  !.log.spawns = Append(@, [why |-> "pos", n0 |-> Len(g.rocks),
                                            size |-> size, x |-> p.x, y |-> p.y,
                                            ship |-> Pos(g.ship)])]

MakeRock ==
    /\ Len(rocks) < InitialRocks + MaxMade
    /\ \E size \in SizeArgs, p \in PosArgs :
          Commit(make_rock_pos(Game("make_rock"), size, p))
    /\ UNCHANGED <<keys, frames, key_changes>>

InitRock ==
    /\ \E seed \in Seeds :
          LET g == LateGame(seed)
          IN  /\ state = g.state
              /\ lives = g.lives
              /\ score = g.score
              /\ counter = 0
              /\ min_rock_distance = g.mrd
              /\ rocks = g.rocks
              /\ spaceship = g.ship
              /\ start_timer = g.tstart
              /\ restart_timer = g.trestart
              /\ fire_age = g.age
              /\ rng = g.rng
              /\ ev = NoLog("click", "WELCOME", Old(0, 0, 0))
    /\ keys = {}
    /\ frames = 0
    /\ key_changes = 0

NextRock == MakeRock

SpecRock == InitRock /\ [][NextRock]_vars

-----------------------------------------------------------------------------
(* The claims *)

Hits == {ev.hits[i] : i \in 1..Len(ev.hits)}
Spawns == {ev.spawns[i] : i \in 1..Len(ev.spawns)}
AllBig(rs) == \A i \in 1..Len(rs) : rs[i].size = "big"

Edges ==
    { <<"WELCOME", "PLAYING">>, <<"PLAYING", "DYING">>, <<"DYING", "PLAYING">>,
      <<"DYING", "GAME_OVER">>, <<"GAME_OVER", "STARTING">>,
      <<"STARTING", "PLAYING">> }

\* C1: the session starts in WELCOME and its state changes only along the
\* edges of the state machine; WELCOME is never entered again; a click or
\* Enter changes the state only from WELCOME or STARTING.
C1_StateMachine ==
    /\ state = "WELCOME"
    /\ [][ /\ state' # state => <<state, state'>> \in Edges
           /\ state # "WELCOME" => state' # "WELCOME"
           /\ (ev'.kind \in {"click", "enter"} /\ state' # state)
                  => state \in {"WELCOME", "STARTING"} ]_vars

\* a second session was started from the STARTING screen
C1_Witness ==
    state = "PLAYING" /\ ev.kind \in {"click", "enter"} /\ ev.pre = "STARTING"

\* C2: the loss of a life takes one life: lives goes down only in a step
\* that leaves PLAYING, and then by exactly one, however many rocks are
\* within their death distance in that frame.
C2_DieOnce ==
    [][ lives' < lives => (state = "PLAYING" /\ lives' = lives - 1) ]_vars

\* C3: once a session was initialised, lives is in 0..3.
C3_LivesInRange == state # "WELCOME" => lives \in 0..InitialLives

\* C4 as stated: there are never more than 15 rocks.
C4_AtMostFifteen == Len(rocks) <= RampCap

\* C4 as amended: the rocks made at a random position are capped, the splits
\* are not: the replacement of a rock that left the screen or of a destroyed
\* small rock is made only when fewer than 10 rocks are left, the rock of
\* the difficulty ramp only when there are fewer than 15.
C4_SpawnsCapped ==
    \A sp \in Spawns :
        /\ sp.why \in {"oob", "small"} => sp.n0 < RespawnCap
        /\ sp.why = "ramp" => sp.n0 < RampCap

\* a destroyed small rock was replaced when exactly 9 rocks were left
C4_Witness == \E sp \in Spawns : sp.why = "small" /\ sp.n0 = RespawnCap - 1

\* C5: after a click or Enter on the welcome screen or the STARTING screen
\* the session is initialised in full.
C5_FullInit ==
    ev.kind \in {"click", "enter"} =>
        /\ state = "PLAYING"
        /\ lives = InitialLives
        /\ score = 0
        /\ counter = 0
        /\ min_rock_distance = InitialMinRockDistance
        /\ Len(rocks) = InitialRocks
        /\ AllBig(rocks)
        /\ spaceship = [x |-> Width \div 2, y |-> Height \div 2,
                        fx |-> NoSines, fy |-> NoSines, exact |-> TRUE,
                        angle |-> 0, speed |-> 0, is_throttle_on |-> FALSE,
                        active_missiles |-> <<>>]

\* a new game started from the STARTING screen of a game that had scored,
\* had lost more lives than it had and had split rocks
C5_Witness ==
    /\ ev.kind \in {"click", "enter"}
    /\ ev.pre = "STARTING"
    /\ ev.old.score > 0
    /\ ev.old.lives < 0
    /\ ev.old.n > InitialRocks

\* C6: when the life-loss timer fires with lives >= 1 the rocks are replaced
\* by 4 big rocks, there is a new spaceship at the centre without missiles
\* and the state is PLAYING; score, lives and min_rock_distance stay.
C6_NewLife ==
    [][ (start_timer /\ ~start_timer' /\ lives >= 1) =>
            /\ state' = "PLAYING"
            /\ Len(rocks') = InitialRocks
            /\ AllBig(rocks')
            /\ spaceship' = [x |-> Width \div 2, y |-> Height \div 2,
                             fx |-> NoSines, fy |-> NoSines, exact |-> TRUE,
                             angle |-> 0, speed |-> 0, is_throttle_on |-> FALSE,
                             active_missiles |-> <<>>]
            /\ score' = score
            /\ lives' = lives
            /\ min_rock_distance' = min_rock_distance ]_vars

\* a new life after a death with a score and with more than 4 rocks
C6_Witness ==
    /\ ev.kind = "start"
    /\ state = "PLAYING"
    /\ ev.old.score > 0
    /\ ev.old.n > InitialRocks

\* C7: the START timer is armed only while DYING, the RESTART timer only
\* in GAME_OVER; a timer is off after the handler of its event; a START
\* event is handled only in DYING and a RESTART event only in GAME_OVER.
C7_Timers ==
    /\ start_timer => state = "DYING"
    /\ restart_timer => state = "GAME_OVER"
    /\ ev.kind = "start" => (~start_timer /\ ev.pre = "DYING")
    /\ ev.kind = "restart" => (~restart_timer /\ ev.pre = "GAME_OVER")

\* both timers fired: the game is on the STARTING screen
C7_Witness == ev.kind = "restart" /\ state = "STARTING"

\* C8: a hit removes the rock; a big rock leaves two normal rocks at x+10
\* and x-10, a normal rock two small rocks there, a small rock no rock or
\* one big rock.
C8_Splits ==
    \A h \in Hits :
        /\ h.n1 = h.n0 - 1 + Len(h.made)
        /\ h.size \in {"big", "normal"} =>
              /\ Len(h.made) = 2
              /\ h.made[1].size = (IF h.size = "big" THEN "normal" ELSE "small")
              /\ h.made[2].size = h.made[1].size
              /\ <<h.made[1].x, h.made[1].y>> = <<h.x + 10, h.y>>
              /\ <<h.made[2].x, h.made[2].y>> = <<h.x - 10, h.y>>
        /\ h.size = "small" => (Len(h.made) <= 1 /\ AllBig(h.made))

\* a small rock, the fragment of a fragment, was hit and replaced
C8_Witness == \E h \in Hits : h.size = "small" /\ Len(h.made) = 1

\* C9 as stated: a destroyed small rock is replaced iff there were fewer
\* than 10 rocks before it was removed.
C9_CapBeforeRemoval ==
    \A h \in Hits : h.size = "small" => (Len(h.made) = 1 <=> h.n0 < RespawnCap)

\* C9 as amended: a destroyed small rock is replaced iff fewer than 10 rocks
\* are left after it was removed, that is iff there were at most 10 before.
C9_CapAfterRemoval ==
    \A h \in Hits : h.size = "small" => (Len(h.made) = 1 <=> h.n0 - 1 < RespawnCap)

\* a small rock was destroyed when there were 10 rocks, and it was replaced
C9_Witness ==
    \E h \in Hits : h.size = "small" /\ h.n0 = RespawnCap /\ h.n1 = RespawnCap

\* C10: in the frame in which the survival counter reaches 600, a
\* min_rock_distance above 200 goes down by 50.
C10_RampShrinks ==
    [][ (frames' # frames /\ ev'.ramp /\ min_rock_distance > RampFloor)
            => min_rock_distance' = min_rock_distance - RampStep ]_vars

RampSpawns(log) == {i \in 1..Len(log.spawns) : log.spawns[i].why = "ramp"}

\* C11: the survival counter goes up by 1 in a frame that starts and ends in
\* PLAYING, is 0 after a life loss and after a click or Enter that starts a
\* game, and is changed by no other step; in the frame in which it reaches
\* 600 one big rock is made iff there are fewer than 15 rocks, and it is
\* set back to 0: it is in 0..599 after every step.
C11_Counter ==
    [][ /\ counter' \in 0..(RampSeconds * FPS - 1)
        /\ frames' # frames =>
              /\ counter' = IF state' # "PLAYING" \/ counter + 1 = RampSeconds * FPS
                            THEN 0 ELSE counter + 1
              /\ ev'.ramp <=> (state' = "PLAYING" /\ counter + 1 = RampSeconds * FPS)
              /\ ev'.ramp =>
                    /\ Cardinality(RampSpawns(ev')) <= 1
                    /\ \A i \in RampSpawns(ev') :
                          ev'.spawns[i].size = "big" /\ ev'.spawns[i].n0 < RampCap
                    /\ RampSpawns(ev') = {} => Len(rocks') >= RampCap
              /\ ~ev'.ramp => RampSpawns(ev') = {}
        /\ (frames' = frames /\ counter' # counter) =>
              (ev'.kind \in {"click", "enter"} /\ counter' = 0) ]_vars

\* the counter reached 600 with fewer than 15 rocks: one rock was added
C11_Witness ==
    ev.ramp /\ counter = 0 /\ state = "PLAYING" /\ RampSpawns(ev) # {}

\* the counter reached 600 with 15 rocks or more: no rock was added
C11_WitnessFull ==
    ev.ramp /\ counter = 0 /\ RampSpawns(ev) = {} /\ Len(rocks) >= RampCap

\* C12: the held keys, the fire key included, act only in PLAYING: no step
\* taken in DYING, GAME_OVER, STARTING or WELCOME adds a missile to the
\* active missiles.
C12_FireOnlyPlaying ==
    [][ Len(spaceship'.active_missiles) > Len(spaceship.active_missiles)
            => state = "PLAYING" ]_vars

\* C13: the score never goes down within a session: it changes only in a
\* frame in which a missile destroys a rock, and then it goes up, or in a
\* click or Enter that starts a new session, which sets it to 0; a life
\* loss, a respawn, the difficulty ramp and the timers leave it alone.
C13_ScoreMonotone ==
    [][ score' # score =>
            \/ ev'.kind \in {"click", "enter"} /\ frames' = frames /\ score' = 0
            \/ frames' # frames /\ Len(ev'.hits) > 0 /\ score' > score ]_vars

\* a hit added to a score that was already positive
C13_Witness == Len(ev.hits) > 0 /\ ev.old.score > 0 /\ score > ev.old.score

HitsOfSize(size) == {i \in 1..Len(ev.hits) : ev.hits[i].size = size}

\* C14: a frame adds to the score exactly 20 for every big rock, 50 for
\* every normal rock and 100 for every small rock that a missile destroyed
\* in it, wherever the rock and the ship are and whether or not the small
\* rock was replaced.
C14_ScoreDeltas ==
    ev.kind = "refresh" =>
        score - ev.old.score = 20 * Cardinality(HitsOfSize("big"))
                               + 50 * Cardinality(HitsOfSize("normal"))
                               + 100 * Cardinality(HitsOfSize("small"))

\* one frame destroyed rocks of the three sizes, a small rock that was
\* replaced among them, with a ship that had moved and turned
C14_Witness ==
    /\ HitsOfSize("big") # {}
    /\ HitsOfSize("normal") # {}
    /\ \E i \in HitsOfSize("small") : Len(ev.hits[i].made) = 1
    /\ spaceship.angle # 0

\* C15: the speed of the ship is in 0..20 in every state; a PLAYING frame
\* with the throttle key held adds 1 to it up to 20, a PLAYING frame
\* without it takes 1 off down to 0.
C15_Speed ==
    /\ [](spaceship.speed \in 0..20)
    /\ [][ frames' # frames =>
              spaceship'.speed =
                  IF "UP" \in keys
                  THEN (IF spaceship.speed < 20 THEN spaceship.speed + 1 ELSE 20)
                  ELSE (IF spaceship.speed > 0 THEN spaceship.speed - 1 ELSE 0) ]_vars

\* the throttle was held from the first frame on: the speed reached 20 in
\* frame 20 and stayed at 20 in frame 21
C15_Witness ==
    /\ spaceship.speed = MaxShipSpeed
    /\ "UP" \in keys
    /\ frames = MaxShipSpeed + 1
    /\ key_changes <= 1

\* C16: the angle of the ship is in 0..359 in every state; a PLAYING frame
\* with the right key held turns it by -10 and one with the left key held by
\* +10, modulo 360; with both keys held the angle stays.
C16_Heading ==
    /\ [](spaceship.angle \in 0..359)
    /\ [][ frames' # frames =>
              spaceship'.angle =
                  (spaceship.angle
                     + (IF "LEFT" \in keys THEN 10 ELSE 0)
                     - (IF "RIGHT" \in keys THEN 10 ELSE 0)) % 360 ]_vars

\* a right turn from angle 0 wrapped around to 350 and beyond, and then
\* both keys were held
C16_Witness ==
    /\ spaceship.angle \in 180..350
    /\ keys = {"LEFT", "RIGHT"}
    /\ frames > KeyPeriod
    /\ state = "PLAYING"

\* C17: the construction of a rock with a size that is not big, normal or
\* small is rejected: it gives no object, so no call of make_rock with such
\* a size adds anything to the rock list, and no object without size,
\* position and direction is ever in the list.
C17_InvalidSizeRejected ==
    /\ \A i \in 1..Len(rocks) : DOMAIN rocks[i] # {}
    /\ ev.kind = "make_rock" =>
          \A sp \in Spawns : sp.size \notin Sizes => Len(rocks) = ev.old.n

\* C18: a missile destroys at most one rock: after its first hit it is
\* removed and tested against no other rock, so no two hits of one frame
\* are hits of the same missile, and no missile hits a fragment that its
\* own hit made.
C18_OneHitPerMissile ==
    \A i, k \in 1..Len(ev.hits) :
        ev.hits[i].shot = ev.hits[k].shot => i = k

\* C19: a PLAYING frame moves every missile and every rock exactly once:
\* the loop over the missiles moves as many missiles as were in the list
\* when it started, and the loop over the rocks moves every rock that was in
\* the list when it started, also when a missile or a rock is removed
\* from the list or added to it during the loop.
C19_MovedOnce ==
    ev.kind = "refresh" => (ev.mmoved = ev.m0 /\ ev.rmoved = ev.r0)

\* C20: right after every step into PLAYING, by a click or Enter in WELCOME
\* or STARTING and by the life-loss timer in DYING, each of the 4 rocks is at
\* a distance of min_rock_distance or more from the ship that is in play.
C20_RocksAwayFromShip ==
    (ev.kind \in {"click", "enter", "start"} /\ state = "PLAYING") =>
        \A i \in 1..Len(rocks) :
            ~Less(spaceship, rocks[i], min_rock_distance)

InWindow(p) == p.x \in 0..Width /\ p.y \in 0..Height

\* C21: the placement of a rock at a random position never blocks: wherever
\* the ship is, inside the window or outside, a corner of the window is at
\* min_rock_distance or more from it, and no handler that can run in the
\* state samples for ever: the REFRESH handler, the START handler when its
\* timer is armed and do_init all return.
C21_PlacementTerminates ==
    /\ \E i \in 1..Len(Corners) :
          ~Less(spaceship, Corners[i], min_rock_distance)
    /\ ~OnRefresh(Game("refresh"), keys).hung
    /\ start_timer => ~OnStart(Game("start")).hung
    /\ ~do_init(Game("click")).hung

\* the ship was outside the window when a rock was placed at random, after
\* the first sample had been rejected and the window sampled again
C21_Witness ==
    \E sp \in Spawns :
        /\ sp.why \in {"oob", "small", "ramp", "start"}
        /\ sp.ship.exact /\ ~InWindow(sp.ship)
        /\ \E i \in 1..Len(Corners) : Corners[i] = Pt(sp.x, sp.y)

\* C22: if armed timers fire, DYING with a life left leads to PLAYING,
\* DYING with no life left leads to GAME_OVER and GAME_OVER leads to
\* STARTING, whatever the player does or does not do.
C22_TimersLeadOn ==
    /\ (state = "DYING" /\ lives >= 1) ~> (state = "PLAYING")
    /\ (state = "DYING" /\ lives < 1) ~> (state = "GAME_OVER")
    /\ (state = "GAME_OVER") ~> (state = "STARTING")

\* the START timer fired with no life left: the game is over and the RESTART
\* timer is armed
C22_Witness ==
    ev.kind = "start" /\ ev.pre = "DYING" /\ state = "GAME_OVER" /\ restart_timer

Launched == {ev.launched[i] : i \in 1..Len(ev.launched)}

\* C23: fire makes the missile at the centre of the ship moved along the
\* heading by half the size of the sprite on each axis: for the headings 0,
\* 90, 180 and 270 the offset is (0, -half height), (-half width, 0),
\* (0, +half height) and (+half width, 0); the missile has the heading of
\* the ship.
C23_FireOffset ==
    \A l \in Launched :
        LET off == <<l.m.x - l.ship.x, l.m.y - l.ship.y>>
        IN  /\ l.m.angle = l.heading
            /\ l.heading \in AxisAngles => (l.m.fx = l.ship.fx /\ l.m.fy = l.ship.fy)
            /\ l.heading = 0   => off = <<0, 0 - (ShipHeight \div 2)>>
            /\ l.heading = 90  => off = <<0 - (ShipWidth \div 2), 0>>
            /\ l.heading = 180 => off = <<0, ShipHeight \div 2>>
            /\ l.heading = 270 => off = <<ShipWidth \div 2, 0>>

====
